---- MODULE Spec2Model ----
(***************************************************************************)
(* A model of src/src/parse_music_data.py: the three stages of the         *)
(* last.fm pipeline (create_user_country_dict, create_plays_dict,          *)
(* create_country_artist_dict) over the pickle store.                      *)
(*                                                                         *)
(* Conventions.                                                            *)
(*  - A table is a sequence of rows, a row the sequence of its fields as   *)
(*    csv.reader yields them.  Python's row[i] is Field(row, i).           *)
(*  - A timestamp, a year and a file name are Python strings that the code *)
(*    splits or concatenates: they are sequences of characters.  The       *)
(*    literals "user_country", "plays" and "_country_artist" are never     *)
(*    split and are kept as one element each.  User ids, countries and     *)
(*    artist names are only compared, and are TLA+ strings.                *)
(*  - A dict is a function whose DOMAIN is its key set.                    *)
(*  - The store is the directory ../data/dictionary: a function from the   *)
(*    file names saved so far to the pickled dicts.  File names are taken  *)
(*    as opaque keys (no path separators in them).                         *)
(*  - The input files do not change between calls.  The calls at the end   *)
(*    of the file that print saved dicts only read the store and are left  *)
(*    out.                                                                 *)
(***************************************************************************)
EXTENDS Integers, Sequences, FiniteSets

VARIABLES profileFile, eventFile, store, last, completed

vars == <<profileFile, eventFile, store, last, completed>>

----------------------------------------------------------------------------
(* Bounds and input alphabets *)

MaxProfileRows == 2

MaxEventRows == 2

\* how many times in a row the main section is run
MaxPipelineRuns == 2

Users == {"u1", "u2"}

Countries == {"US", "UK"}

Artists == {"ArtistX", "ArtistY"}

\* "5-1-2", "5-2", "6", "-5"
Timestamps ==
    { <<"5", "-", "1", "-", "2">>, <<"5", "-", "2">>, <<"6">>, <<"-", "5">> }

JoinTimestamps == { <<"5", "-", "2">>, <<"6">> }

SeqsUpTo(S, n) == UNION { [1..k -> S] : k \in 0..n }

ProfileRow(u, c) == <<u, "m", "30", c>>

EventRow(u, ts, a) == <<u, ts, "id", a>>

FullHeader == <<"#id", "gender", "age", "country">>

HeaderRows == { FullHeader, <<"#id">> }

GoodProfileRows == { ProfileRow(u, c) : u \in Users, c \in Countries \cup {""} }

ShortProfileRows == { <<"u1", "m", "30">> }

GoodEventRows == { EventRow(u, ts, a) : u \in Users, ts \in Timestamps, a \in Artists }

ShortEventRows == { <<"u1", <<"5", "-", "2">>, "id">> }

JoinEventRows == { EventRow(u, ts, a) : u \in Users, ts \in JoinTimestamps, a \in Artists }

\* every profile table: empty, or a header and up to MaxProfileRows records
ProfileFiles ==
    { <<>> } \cup
    { <<h>> \o f : h \in HeaderRows,
                   f \in SeqsUpTo(GoodProfileRows \cup ShortProfileRows, MaxProfileRows) }

\* the profile tables with no more than a record for u1 and then one for u2,
\* each with a country
JoinProfileFiles ==
    { <<FullHeader>> \o f1 \o f2 :
        f1 \in SeqsUpTo({ ProfileRow("u1", c) : c \in Countries }, 1),
        f2 \in SeqsUpTo({ ProfileRow("u2", c) : c \in Countries }, 1) }

SmallProfileFiles == { << FullHeader, ProfileRow("u1", "US") >> }

EventFiles == SeqsUpTo(GoodEventRows \cup ShortEventRows, MaxEventRows)

JoinEventFiles == SeqsUpTo(JoinEventRows, MaxEventRows)

SmallEventFiles == { <<>>, << EventRow("u1", <<"5", "-", "2">>, "ArtistX") >> }

Inputs ==
    (ProfileFiles \X SmallEventFiles)
        \cup (SmallProfileFiles \X EventFiles)
        \cup (JoinProfileFiles \X JoinEventFiles)

----------------------------------------------------------------------------
(* Python primitives *)

\* row[i], i counted from 0
Field(row, i) == row[i + 1]

\* row[i] raises IndexError unless i < len(row)
HasField(row, i) == i < Len(row)

EmptyDict == <<>>

\* d[k] = v
Put(d, k, v) == [x \in DOMAIN d \cup {k} |-> IF x = k THEN v ELSE d[x]]

RECURSIVE SplitScan(_, _, _, _)
SplitScan(s, sep, i, parts) ==
    IF i > Len(s) THEN parts
    ELSE IF s[i] = sep THEN SplitScan(s, sep, i + 1, Append(parts, <<>>))
    ELSE SplitScan(s, sep, i + 1, [parts EXCEPT ![Len(parts)] = Append(@, s[i])])

\* s.split(sep)
Split(s, sep) == SplitScan(s, sep, 1, << <<>> >>)

\* a slip: timestamp.rsplit('-', 1)[0], the timestamp up to its last '-'
YearOfLastDash(timestamp) ==
    LET parts == Split(timestamp, "-") IN
    IF Len(parts) = 1 THEN timestamp
    ELSE SubSeq(timestamp, 1, Len(timestamp) - Len(parts[Len(parts)]) - 1)

\* timestamp.split('-')[0]
YearOf(timestamp) == Split(timestamp, "-")[1]

----------------------------------------------------------------------------
(* The pickle store *)

UserCountryName == <<"user_country">>

PlaysName == <<"plays">>

\* year+"_country_artist"
YearName(year) == year \o <<"_country_artist">>

StoreDictPickle(s, file_name, dictionary) == Put(s, file_name, dictionary)

LoadDictPickle(s, file_name) ==
    IF file_name \in DOMAIN s
    THEN [error |-> "none", value |-> s[file_name]]
    ELSE [error |-> "FileNotFoundError", value |-> EmptyDict]

\* the log of store_dict_pickle calls of one run: file name -> number of saves
NoSaves == <<>>

Saved(log, file_name) ==
    IF file_name \in DOMAIN log THEN [log EXCEPT ![file_name] = @ + 1]
    ELSE Put(log, file_name, 1)

----------------------------------------------------------------------------
(* create_user_country_dict *)

\* a slip: a user already in the dict keeps the first country
UserCountryStepFirstWins(user_country, row) ==
    IF Field(row, 3) # "" /\ Field(row, 0) \notin DOMAIN user_country
    THEN Put(user_country, Field(row, 0), Field(row, 3))
    ELSE user_country

\* a slip: a record with an empty country removes the user's entry
UserCountryStepEmptyClears(user_country, row) ==
    IF Field(row, 3) # ""
    THEN Put(user_country, Field(row, 0), Field(row, 3))
    ELSE [u \in DOMAIN user_country \ {Field(row, 0)} |-> user_country[u]]

\* the body of the loop for one record after the header, its fields present
UserCountryStep(user_country, row) ==
    IF Field(row, 3) # ""
    THEN Put(user_country, Field(row, 0), Field(row, 3))
    ELSE user_country

RECURSIVE UserCountryLoop(_, _, _)
UserCountryLoop(rows, index, user_country) ==
    IF index >= Len(rows) THEN [error |-> "none", at |-> 0, value |-> user_country]
    ELSE LET row == rows[index + 1] IN
         IF index = 0 THEN UserCountryLoop(rows, index + 1, user_country)
         ELSE IF ~HasField(row, 3)
              THEN [error |-> "IndexError", at |-> index + 1, value |-> user_country]
         ELSE UserCountryLoop(rows, index + 1, UserCountryStep(user_country, row))

\* a slip: the dict built so far is saved although the loop raised
UserCountryRunSavesPartial(rows, s) ==
    LET r == UserCountryLoop(rows, 0, EmptyDict) IN
    [error |-> r.error, at |-> r.at,
     store |-> StoreDictPickle(s, UserCountryName, r.value),
     saved |-> Saved(NoSaves, UserCountryName)]

\* the whole function on store s: what it leaves in the store, and how it ends
UserCountryRun(rows, s) ==
    LET r == UserCountryLoop(rows, 0, EmptyDict) IN
    IF r.error = "none"
    THEN [error |-> "none", at |-> 0,
          store |-> StoreDictPickle(s, UserCountryName, r.value),
          saved |-> Saved(NoSaves, UserCountryName)]
    ELSE [error |-> r.error, at |-> r.at, store |-> s, saved |-> NoSaves]

----------------------------------------------------------------------------
(* create_plays_dict *)

\* a slip: a known artist's count is set to 1 again, not incremented
PlaysStepNoIncrement(plays, row) ==
    LET user == Field(row, 0)
        artist == Field(row, 3)
        year == YearOf(Field(row, 1))
    IN  IF year \in DOMAIN plays
        THEN IF user \in DOMAIN plays[year]
             THEN [plays EXCEPT ![year][user] = Put(@, artist, 1)]
             ELSE [plays EXCEPT ![year] = Put(@, user, Put(EmptyDict, artist, 1))]
        ELSE Put(plays, year, Put(EmptyDict, user, Put(EmptyDict, artist, 1)))

\* the body of the loop for one row with its fields present
PlaysStep(plays, row) ==
    LET user == Field(row, 0)
        timestamp == Field(row, 1)
        artist == Field(row, 3)
        year == YearOf(timestamp)
    IN  IF year \in DOMAIN plays
        THEN IF user \in DOMAIN plays[year]
             THEN IF artist \in DOMAIN plays[year][user]
                  THEN [plays EXCEPT ![year][user][artist] = @ + 1]
                  ELSE [plays EXCEPT ![year][user] = Put(@, artist, 1)]
             ELSE [plays EXCEPT ![year] = Put(@, user, Put(EmptyDict, artist, 1))]
        ELSE Put(plays, year, Put(EmptyDict, user, Put(EmptyDict, artist, 1)))

RECURSIVE PlaysLoop(_, _, _)
PlaysLoop(rows, n, plays) ==
    IF n >= Len(rows) THEN [error |-> "none", at |-> 0, value |-> plays]
    ELSE LET row == rows[n + 1] IN
         IF ~HasField(row, 0) \/ ~HasField(row, 1) \/ ~HasField(row, 3)
         THEN [error |-> "IndexError", at |-> n + 1, value |-> plays]
         ELSE PlaysLoop(rows, n + 1, PlaysStep(plays, row))

\* a slip: the count goes on from the tally saved by an earlier run
PlaysRunAccumulates(rows, s) ==
    LET r == PlaysLoop(rows, 0, IF PlaysName \in DOMAIN s THEN s[PlaysName] ELSE EmptyDict) IN
    IF r.error = "none"
    THEN [error |-> "none", at |-> 0,
          store |-> StoreDictPickle(s, PlaysName, r.value),
          saved |-> Saved(NoSaves, PlaysName)]
    ELSE [error |-> r.error, at |-> r.at, store |-> s, saved |-> NoSaves]

PlaysRun(rows, s) ==
    LET r == PlaysLoop(rows, 0, EmptyDict) IN
    IF r.error = "none"
    THEN [error |-> "none", at |-> 0,
          store |-> StoreDictPickle(s, PlaysName, r.value),
          saved |-> Saved(NoSaves, PlaysName)]
    ELSE [error |-> r.error, at |-> r.at, store |-> s, saved |-> NoSaves]

----------------------------------------------------------------------------
(* create_country_artist_dict *)

\* a slip: the country's count is overwritten by the user's, not added to
AddArtistOverwrites(artist_dict, artist, count) == Put(artist_dict, artist, count)

\* the body of the loop over a user's artists
AddArtist(artist_dict, artist, count) ==
    IF artist \in DOMAIN artist_dict
    THEN [artist_dict EXCEPT ![artist] = @ + count]
    ELSE Put(artist_dict, artist, count)

\* for artist in plays_dict[year][user]
RECURSIVE AddArtists(_, _, _)
AddArtists(artist_dict, user_plays, todo) ==
    IF todo = {} THEN artist_dict
    ELSE LET artist == CHOOSE a \in todo : TRUE IN
         AddArtists(AddArtist(artist_dict, artist, user_plays[artist]),
                    user_plays, todo \ {artist})

\* with the country known: the country's dict is made if need be, then filled
JoinCountry(country_artist, country, user_plays) ==
    LET withCountry == IF country \notin DOMAIN country_artist
                       THEN Put(country_artist, country, EmptyDict)
                       ELSE country_artist
    IN  [withCountry EXCEPT ![country] = AddArtists(@, user_plays, DOMAIN user_plays)]

\* a slip: a user with no country is counted under the country ''
JoinUserUnknownCountry(country_artist, user_dict, year_plays, user) ==
    JoinCountry(country_artist,
                IF user \in DOMAIN user_dict THEN user_dict[user] ELSE "",
                year_plays[user])

\* the body of the loop over the users of one year
JoinUser(country_artist, user_dict, year_plays, user) ==
    IF user \notin DOMAIN user_dict THEN country_artist
    ELSE JoinCountry(country_artist, user_dict[user], year_plays[user])

\* for user in plays_dict[year]
RECURSIVE JoinUsers(_, _, _, _)
JoinUsers(country_artist, user_dict, year_plays, todo) ==
    IF todo = {} THEN country_artist
    ELSE LET user == CHOOSE u \in todo : TRUE IN
         JoinUsers(JoinUser(country_artist, user_dict, year_plays, user),
                   user_dict, year_plays, todo \ {user})

\* one year's country_artist dict
JoinYear(user_dict, year_plays) ==
    JoinUsers(EmptyDict, user_dict, year_plays, DOMAIN year_plays)

\* a slip: a year whose dict is empty is not saved
RECURSIVE JoinLoopSkipsEmpty(_, _, _, _, _)
JoinLoopSkipsEmpty(s, log, user_dict, plays_dict, todo) ==
    IF todo = {} THEN [store |-> s, saved |-> log]
    ELSE LET year == CHOOSE y \in todo : TRUE
             country_artist == JoinYear(user_dict, plays_dict[year])
         IN  IF country_artist = EmptyDict
             THEN JoinLoopSkipsEmpty(s, log, user_dict, plays_dict, todo \ {year})
             ELSE JoinLoopSkipsEmpty(StoreDictPickle(s, YearName(year), country_artist),
                                     Saved(log, YearName(year)),
                                     user_dict, plays_dict, todo \ {year})

\* for year in plays_dict: build the year's dict and save it
RECURSIVE JoinLoop(_, _, _, _, _)
JoinLoop(s, log, user_dict, plays_dict, todo) ==
    IF todo = {} THEN [store |-> s, saved |-> log]
    ELSE LET year == CHOOSE y \in todo : TRUE IN
         JoinLoop(StoreDictPickle(s, YearName(year), JoinYear(user_dict, plays_dict[year])),
                  Saved(log, YearName(year)),
                  user_dict, plays_dict, todo \ {year})

\* a slip: a missing user_country file is read as an empty dict
CountryArtistRunDefaultsIndex(s) ==
    LET plays_dict == LoadDictPickle(s, PlaysName) IN
    IF plays_dict.error # "none"
    THEN [error |-> plays_dict.error, at |-> 0, store |-> s, saved |-> NoSaves]
    ELSE LET r == JoinLoop(s, NoSaves, LoadDictPickle(s, UserCountryName).value,
                           plays_dict.value, DOMAIN plays_dict.value)
         IN  [error |-> "none", at |-> 0, store |-> r.store, saved |-> r.saved]

CountryArtistRun(s) ==
    LET user_dict == LoadDictPickle(s, UserCountryName)
        plays_dict == LoadDictPickle(s, PlaysName)
    IN  IF user_dict.error # "none"
        THEN [error |-> user_dict.error, at |-> 0, store |-> s, saved |-> NoSaves]
        ELSE IF plays_dict.error # "none"
        THEN [error |-> plays_dict.error, at |-> 0, store |-> s, saved |-> NoSaves]
        ELSE LET r == JoinLoop(s, NoSaves, user_dict.value, plays_dict.value,
                               DOMAIN plays_dict.value)
             IN  [error |-> "none", at |-> 0, store |-> r.store, saved |-> r.saved]

----------------------------------------------------------------------------
(* State machine *)

Init ==
    /\ \E in \in Inputs : profileFile = in[1] /\ eventFile = in[2]
    /\ store = EmptyDict
    /\ last = [op |-> "none", error |-> "none", at |-> 0, saved |-> NoSaves, run |-> 0]
    /\ completed = {}

\* how a call ends: the store it leaves, and the record of the call
\* (last.run: how many runs of the main section in a row end here)
Finish(op, r, done) ==
    /\ store' = r.store
    /\ last' = [op |-> op, error |-> r.error, at |-> r.at, saved |-> r.saved,
                run |-> IF op = "main" THEN last.run + 1 ELSE 0]
    /\ completed' = completed \cup done
    /\ UNCHANGED <<profileFile, eventFile>>

Returned(op, r) == IF r.error = "none" THEN {op} ELSE {}

\* each result is bound once (\E over a singleton) and then used
CreateUserCountryDict ==
    \E r \in {UserCountryRun(profileFile, store)} :
        Finish("create_user_country_dict", r, Returned("create_user_country_dict", r))

CreatePlaysDict ==
    \E r \in {PlaysRun(eventFile, store)} :
        Finish("create_plays_dict", r, Returned("create_plays_dict", r))

CreateCountryArtistDict ==
    \E r \in {CountryArtistRun(store)} :
        Finish("create_country_artist_dict", r, Returned("create_country_artist_dict", r))

BothSaved(log1, log2) ==
    [n \in DOMAIN log1 \cup DOMAIN log2 |->
        (IF n \in DOMAIN log1 THEN log1[n] ELSE 0)
      + (IF n \in DOMAIN log2 THEN log2[n] ELSE 0)]

\* the main section: the three calls in order; an exception ends the script
Main ==
    /\ last.run < MaxPipelineRuns
    /\ \E r1 \in {UserCountryRun(profileFile, store)} :
        IF r1.error # "none" THEN Finish("main", r1, {})
        ELSE \E r2 \in {PlaysRun(eventFile, r1.store)} :
            IF r2.error # "none"
            THEN Finish("main", [r2 EXCEPT !.saved = r1.saved],
                        {"create_user_country_dict"})
            ELSE \E r3 \in {CountryArtistRun(r2.store)} :
                Finish("main",
                       [r3 EXCEPT !.saved = BothSaved(BothSaved(r1.saved, r2.saved), @)],
                       {"create_user_country_dict", "create_plays_dict"}
                           \cup Returned("create_country_artist_dict", r3))

Next ==
    \/ CreateUserCountryDict
    \/ CreatePlaysDict
    \/ CreateCountryArtistDict
    \/ Main

Spec == Init /\ [][Next]_vars

----------------------------------------------------------------------------
(* What the tables say, read off the input files without the code *)

ProfileRecords == 2..Len(profileFile)

EventRecords == 1..Len(eventFile)

RecordUser(i) == profileFile[i][1]

RecordCountry(i) == profileFile[i][4]

EventUser(i) == eventFile[i][1]

EventTimestamp(i) == eventFile[i][2]

EventArtist(i) == eventFile[i][4]

Dashes(ts) == { k \in 1..Len(ts) : ts[k] = "-" }

\* the timestamp up to its first '-', the whole of it when it has none
PrefixBeforeDash(ts) ==
    IF Dashes(ts) = {} THEN ts
    ELSE SubSeq(ts, 1, (CHOOSE k \in Dashes(ts) : \A m \in Dashes(ts) : k <= m) - 1)

EventYear(i) == PrefixBeforeDash(EventTimestamp(i))

EventsOf(y, u, a) ==
    { i \in EventRecords : EventYear(i) = y /\ EventUser(i) = u /\ EventArtist(i) = a }

EventsOfUser(y, u) == { i \in EventRecords : EventYear(i) = y /\ EventUser(i) = u }

EventsOfYear(y) == { i \in EventRecords : EventYear(i) = y }

RECURSIVE SumOver(_, _)
SumOver(f, keys) ==
    IF keys = {} THEN 0
    ELSE LET k == CHOOSE x \in keys : TRUE IN f[k] + SumOver(f, keys \ {k})

\* the sum of a dict's values
Total(d) == SumOver(d, DOMAIN d)

HasPlays == PlaysName \in DOMAIN store

HasIndex == UserCountryName \in DOMAIN store

Tally == store[PlaysName]

Index == store[UserCountryName]

OutputName(y) == y \o <<"_country_artist">>

----------------------------------------------------------------------------
(* C2: once create_plays_dict has saved the tally, every leaf                *)
(* tally[year][user][artist] is the number of event rows with that triple    *)
(* (at least one: no key stands for a triple of no row), every row's triple  *)
(* is a key, and the counts under a (year, user) add up to the number of     *)
(* that user's rows of that year.                                            *)
TallyExact ==
    HasPlays =>
        /\ \A y \in DOMAIN Tally : \A u \in DOMAIN Tally[y] :
              /\ \A a \in DOMAIN Tally[y][u] :
                    /\ Tally[y][u][a] = Cardinality(EventsOf(y, u, a))
                    /\ EventsOf(y, u, a) # {}
              /\ Total(Tally[y][u]) = Cardinality(EventsOfUser(y, u))
        /\ \A i \in EventRecords :
              /\ EventYear(i) \in DOMAIN Tally
              /\ EventUser(i) \in DOMAIN Tally[EventYear(i)]
              /\ EventArtist(i) \in DOMAIN Tally[EventYear(i)][EventUser(i)]

\* a triple counted twice
TallyExactWitness ==
    /\ HasPlays
    /\ last.op = "create_plays_dict"
    /\ \E y \in DOMAIN Tally : \E u \in DOMAIN Tally[y] : \E a \in DOMAIN Tally[y][u] :
          Tally[y][u][a] = 2

(* C8: the year keys of the saved tally are exactly the rows' timestamps up  *)
(* to their first '-' (the whole timestamp without one, the empty string     *)
(* when it starts with one), and each year key holds as many plays as there  *)
(* are rows with that prefix: rows share a year key iff their prefixes are   *)
(* equal.                                                                    *)
YearDerivation ==
    HasPlays =>
        /\ DOMAIN Tally = { EventYear(i) : i \in EventRecords }
        /\ \A y \in DOMAIN Tally :
              SumOver([u \in DOMAIN Tally[y] |-> Total(Tally[y][u])], DOMAIN Tally[y])
                  = Cardinality(EventsOfYear(y))

\* a timestamp that starts with '-' and one without '-', each under its own key
YearDerivationWitness ==
    /\ HasPlays
    /\ DOMAIN Tally = { <<>>, <<"6">> }
    /\ \E i, j \in EventRecords :
          EventTimestamp(i) = <<"-", "5">> /\ EventTimestamp(j) = <<"6">>

----------------------------------------------------------------------------
(* The user-country index *)

NonEmptyRecords(u) ==
    { i \in ProfileRecords : RecordUser(i) = u /\ RecordCountry(i) # "" }

Latest(S) == CHOOSE k \in S : \A m \in S : m <= k

Earliest(S) == CHOOSE k \in S : \A m \in S : k <= m

(* C3 as stated: once the index is saved, every record after the header with *)
(* a country has its user mapped to that record's country, every record with *)
(* an empty country has its user absent, and no user is mapped to "".        *)
IndexMembershipAsStated ==
    HasIndex =>
        /\ \A i \in ProfileRecords :
              IF RecordCountry(i) # ""
              THEN RecordUser(i) \in DOMAIN Index /\ Index[RecordUser(i)] = RecordCountry(i)
              ELSE RecordUser(i) \notin DOMAIN Index
        /\ \A u \in DOMAIN Index : Index[u] # ""

(* C3, amended: once the index is saved, every record after the header with  *)
(* a country has its user in the index, mapped to that record's country when *)
(* no later record of the same user has a country; the user of a record with *)
(* an empty country is absent unless another record of that user has a       *)
(* country; the index holds no other user, and no user is mapped to "".      *)
IndexMembership ==
    HasIndex =>
        /\ \A i \in ProfileRecords :
              IF RecordCountry(i) # ""
              THEN /\ RecordUser(i) \in DOMAIN Index
                   /\ (\A j \in NonEmptyRecords(RecordUser(i)) : j <= i)
                          => Index[RecordUser(i)] = RecordCountry(i)
              ELSE NonEmptyRecords(RecordUser(i)) = {} => RecordUser(i) \notin DOMAIN Index
        /\ \A u \in DOMAIN Index : Index[u] # "" /\ NonEmptyRecords(u) # {}

\* two records of one user with different countries
IndexMembershipWitness ==
    /\ HasIndex
    /\ last.op = "create_user_country_dict"
    /\ \E i, j \in ProfileRecords :
          /\ i < j
          /\ RecordUser(i) = RecordUser(j)
          /\ RecordCountry(i) # "" /\ RecordCountry(j) # ""
          /\ RecordCountry(i) # RecordCountry(j)
          /\ Index[RecordUser(i)] = RecordCountry(j)

(* C9: once the index is saved, a user with several records with a country   *)
(* is mapped to the country of the last of them, also when a record of that  *)
(* user with an empty country comes after it.                                *)
LastOccurrenceWins ==
    HasIndex =>
        \A i, j \in ProfileRecords :
            (i < j /\ RecordUser(i) = RecordUser(j) /\ RecordCountry(i) # "")
                => /\ RecordUser(i) \in DOMAIN Index
                   /\ Index[RecordUser(i)]
                         = RecordCountry(Latest(NonEmptyRecords(RecordUser(i))))
                   /\ (RecordCountry(j) = "" /\ Latest(NonEmptyRecords(RecordUser(i))) = i)
                         => Index[RecordUser(i)] = RecordCountry(i)

\* a record with a country, then one of the same user with an empty country
LastOccurrenceWinsWitness ==
    /\ HasIndex
    /\ last.op = "create_user_country_dict"
    /\ \E i, j \in ProfileRecords :
          /\ i < j
          /\ RecordUser(i) = RecordUser(j)
          /\ RecordCountry(i) # "" /\ RecordCountry(j) = ""
          /\ Index[RecordUser(i)] = RecordCountry(i)

----------------------------------------------------------------------------
(* Malformed records *)

ShortRecords(file) == { i \in 1..Len(file) : Len(file[i]) < 4 }

Aborted(at) == last'.error = "IndexError" /\ last'.at = at /\ store' = store

(* C7 as stated: a run of create_user_country_dict (create_plays_dict) on a  *)
(* profile (event) table with a record of fewer than 4 fields, the header    *)
(* included, ends with an error at the first such record and leaves the      *)
(* store as it was.                                                          *)
MalformedAbortsAsStated ==
    [][ /\ (CreateUserCountryDict /\ ShortRecords(profileFile) # {})
              => Aborted(Earliest(ShortRecords(profileFile)))
        /\ (CreatePlaysDict /\ ShortRecords(eventFile) # {})
              => Aborted(Earliest(ShortRecords(eventFile))) ]_vars

(* C7, amended: the same for the records of the profile table after its      *)
(* header (the header is discarded unread) and for every record of the event *)
(* table.                                                                    *)
MalformedAborts ==
    [][ /\ (CreateUserCountryDict /\ ShortRecords(profileFile) \ {1} # {})
              => Aborted(Earliest(ShortRecords(profileFile) \ {1}))
        /\ (CreatePlaysDict /\ ShortRecords(eventFile) # {})
              => Aborted(Earliest(ShortRecords(eventFile))) ]_vars

\* create_user_country_dict has failed at a record after a good one, with the
\* tally in the store
MalformedAbortsWitness ==
    /\ last.op = "create_user_country_dict"
    /\ last.error = "IndexError"
    /\ last.at = 3
    /\ Len(profileFile[1]) < 4
    /\ DOMAIN store = {PlaysName}

----------------------------------------------------------------------------
(* The per-year outputs *)

Output(y) == store[OutputName(y)]

\* out[c][a], 0 when there is no such entry
At(out, c, a) == IF c \in DOMAIN out /\ a \in DOMAIN out[c] THEN out[c][a] ELSE 0

\* tally[y][u][a], 0 when there is no such entry
PlaysOf(y, u, a) ==
    IF u \in DOMAIN Tally[y] /\ a \in DOMAIN Tally[y][u] THEN Tally[y][u][a] ELSE 0

UsersIn(c) == { u \in DOMAIN Index : Index[u] = c }

JoinerReturned == last.op = "create_country_artist_dict" /\ last.error = "none"

(* C1: every saved output of a year of the tally holds, for every country    *)
(* and artist, the sum of tally[year][user][artist] over the users the index *)
(* maps to that country (0, and then no entry or a sum of nothing, for       *)
(* users outside the index and for other years' plays); a run of             *)
(* create_country_artist_dict that returns leaves such an output for every   *)
(* year of the tally.                                                        *)
JoinCorrect ==
    (HasIndex /\ HasPlays) =>
        /\ \A y \in DOMAIN Tally :
              OutputName(y) \in DOMAIN store =>
                 \A c \in Countries \cup {""} \cup DOMAIN Output(y) :
                    \A a \in Artists \cup (IF c \in DOMAIN Output(y)
                                           THEN DOMAIN Output(y)[c] ELSE {}) :
                       At(Output(y), c, a)
                          = SumOver([u \in UsersIn(c) |-> PlaysOf(y, u, a)], UsersIn(c))
        /\ JoinerReturned => \A y \in DOMAIN Tally : OutputName(y) \in DOMAIN store

\* two users of one country with a play of the same artist in the same year,
\* and a play of another year
JoinCorrectWitness ==
    /\ JoinerReturned
    /\ \E y \in DOMAIN Tally : \E c \in DOMAIN Output(y) : \E a \in DOMAIN Output(y)[c] :
          /\ Output(y)[c][a] = 2
          /\ Cardinality(UsersIn(c)) = 2
          /\ \A u \in UsersIn(c) : PlaysOf(y, u, a) = 1

(* C4: a run of create_country_artist_dict that returns has saved exactly    *)
(* the names "<year>_country_artist" of the years of the tally, each once    *)
(* (a year none of whose users is in the index with the empty dict), and     *)
(* nothing when the event table is empty, the tally being empty then.        *)
PerYearOutputs ==
    JoinerReturned =>
        /\ last.saved = [n \in { OutputName(y) : y \in DOMAIN Tally } |-> 1]
        /\ \A y \in DOMAIN Tally :
              /\ OutputName(y) \in DOMAIN store
              /\ (DOMAIN Tally[y] \cap DOMAIN Index = {}) => Output(y) = EmptyDict
        /\ eventFile = <<>> => (Tally = EmptyDict /\ last.saved = NoSaves)

\* two years saved, one of them with no user of the index
PerYearOutputsWitness ==
    /\ JoinerReturned
    /\ Cardinality(DOMAIN last.saved) = 2
    /\ \E y, z \in DOMAIN Tally : Output(y) = EmptyDict /\ Output(z) # EmptyDict

(* C10: in the saved tally every user has an artist and every count is at    *)
(* least 1; in every saved output of a year of the tally every country has   *)
(* an artist, every count is at least 1, and every country is the country    *)
(* of a user of the index with an event row of that year.                    *)
NoEmptyEntries ==
    /\ HasPlays =>
          \A y \in DOMAIN Tally : \A u \in DOMAIN Tally[y] :
             /\ DOMAIN Tally[y][u] # {}
             /\ \A a \in DOMAIN Tally[y][u] : Tally[y][u][a] >= 1
    /\ (HasPlays /\ HasIndex) =>
          \A y \in DOMAIN Tally :
             OutputName(y) \in DOMAIN store =>
                \A c \in DOMAIN Output(y) :
                   /\ DOMAIN Output(y)[c] # {}
                   /\ \A a \in DOMAIN Output(y)[c] : Output(y)[c][a] >= 1
                   /\ \E u \in UsersIn(c) : EventsOfUser(y, u) # {}

\* an output with one country, of a year with a user outside the index too
NoEmptyEntriesWitness ==
    /\ JoinerReturned
    /\ \E y \in DOMAIN Tally :
          /\ Cardinality(DOMAIN Output(y)) = 1
          /\ Cardinality(DOMAIN Tally[y]) = 2
          /\ DOMAIN Tally[y] \ DOMAIN Index # {}

----------------------------------------------------------------------------
(* The order of the stages *)

JoinerSaved ==
    /\ last.op \in {"create_country_artist_dict", "main"}
    /\ DOMAIN last.saved \ {UserCountryName, PlaysName} # {}

(* C6: a run of create_country_artist_dict with "user_country" or "plays"    *)
(* not in the store ends with the store's not-found error, has saved nothing *)
(* and leaves the store as it was; and whenever the joiner has saved an      *)
(* output, create_user_country_dict and create_plays_dict have both returned *)
(* before and their results are in the store.                                *)
JoinerPrecondition ==
    /\ [][ (CreateCountryArtistDict /\ ~(HasIndex /\ HasPlays))
              => /\ last'.error = "FileNotFoundError"
                 /\ last'.saved = NoSaves
                 /\ store' = store ]_vars
    /\ [](JoinerSaved =>
             /\ {"create_user_country_dict", "create_plays_dict"} \subseteq completed
             /\ HasIndex /\ HasPlays)

\* the joiner has failed with the index in the store and the tally missing
JoinerPreconditionWitness ==
    /\ last.op = "create_country_artist_dict"
    /\ last.error = "FileNotFoundError"
    /\ DOMAIN store = {UserCountryName}
    /\ eventFile # <<>>

(* C5: a run of the main section right after a run of the main section       *)
(* leaves the store as the first run left it: no name added or removed, and  *)
(* every name with an equal dict.                                            *)
Idempotent ==
    [][ (last.run >= 1 /\ last'.run = last.run + 1) => store' = store ]_vars

\* a second run that has returned, with two outputs in the store
IdempotentWitness ==
    /\ last.op = "main"
    /\ last.run = 2
    /\ last.error = "none"
    /\ Cardinality(DOMAIN store) = 4

====
